---------------------------- MODULE Spec2Model ----------------------------
(***************************************************************************)
(* Model of vdsm's netlink address enumeration (lib/vdsm/netlink/addr.py). *)
(*                                                                         *)
(* iter_addrs() is a Python generator: each call creates a generator       *)
(* object whose body runs only while the consumer is inside next() or      *)
(* close().  The body is modelled statement by statement (one action per   *)
(* statement of the generator), so that several generators consumed from   *)
(* several threads interleave at the granularity of the native calls.      *)
(*                                                                         *)
(* Strings that the code takes apart (the flag list) are sequences of      *)
(* one-character strings; strings that are only passed through are TLA+    *)
(* strings.                                                                *)
(***************************************************************************)
EXTENDS Integers, Sequences, FiniteSets, TLC

(***************************************************************************)
(* Bounds of the model.                                                    *)
(***************************************************************************)
NumCalls == 1      \* generator objects created by iter_addrs()
MaxAddrs == 2      \* entries of the kernel's address list
MaxIdle == 1       \* requests made on a generator after it has ended
MaxFlags == 2      \* flag names listed by one native flag string
NumLive == 2       \* generators alive at once in the concurrency check

CHARBUFFSIZE == 40

Calls == 1..NumCalls
LiveCalls == 1..NumLive

None == "None"     \* Python's None / a NULL char pointer
NULL == 0          \* a NULL native handle

(***************************************************************************)
(* Native data.  An address object of the kernel's list.                   *)
(*   ifindex   rtnl_addr_get_ifindex                                       *)
(*   label     rtnl_addr_get_label: None (NULL), "" or the alias           *)
(*   family    rtnl_addr_get_family (AF_INET = 2, AF_INET6 = 10)           *)
(*   prefixlen rtnl_addr_get_prefixlen                                     *)
(*   scope     rtnl_addr_get_scope                                         *)
(*   flags     the flag names rtnl_addr_flags2str lists for                *)
(*             rtnl_addr_get_flags, in the order it lists them             *)
(*   local     the text nl_addr2str gives for rtnl_addr_get_local          *)
(***************************************************************************)
PE == <<"p", "e">>       \* "pe", stands for "permanent"
SE == <<"s", "e">>       \* "se", stands for "secondary"
FlagNames == {PE, SE}

\* The full text of a native address, as the library's converter would
\* write it into a buffer of any size: "192.0.2.1/24" and "::1".
Text4 == <<"1", "9", "2", ".", "0", ".", "2", ".", "1", "/", "2", "4">>
Text6 == <<":", ":", "1">>

FixtureAddrs ==
    { [ifindex |-> 2, label |-> None, family |-> 2, prefixlen |-> 24,
       scope |-> 0, flags |-> <<PE, SE>>, local |-> Text4],
      [ifindex |-> 9, label |-> "", family |-> 10, prefixlen |-> 128,
       scope |-> 254, flags |-> <<>>, local |-> Text6] }

\* The interfaces of the host: what a link cache mirrors.
Links == (1 :> "lo") @@ (2 :> "eth0")

RECURSIVE SeqsUpTo(_, _)
SeqsUpTo(S, n) ==
    IF n = 0 THEN {<<>>}
    ELSE LET shorter == SeqsUpTo(S, n - 1)
         IN shorter \cup {Append(s, x) : s \in shorter, x \in S}

Range(s) == {s[i] : i \in 1..Len(s)}

(***************************************************************************)
(* Native string conversions.                                              *)
(***************************************************************************)
RECURSIVE Join(_)
Join(names) ==
    IF names = <<>> THEN <<>>
    ELSE IF Len(names) = 1 THEN names[1]
    ELSE names[1] \o <<",">> \o Join(Tail(names))

\* A native converter writes at most size - 1 characters and a terminator.
Truncate(s, size) == IF Len(s) < size THEN s ELSE SubSeq(s, 1, size - 1)

_rtnl_addr_flags2str(names, size) == Truncate(Join(names), size)

\* nl_addr2str: the text of the address, cut to the buffer.
_nl_addr2str(text, size) == Truncate(text, size)

DigitChar(d) == <<"0", "1", "2", "3", "4", "5", "6", "7", "8", "9">>[d + 1]

RECURSIVE Digits(_)
Digits(n) ==
    IF n < 10 THEN <<DigitChar(n)>>
    ELSE Digits(n \div 10) \o <<DigitChar(n % 10)>>

RECURSIVE JoinSep(_, _)
JoinSep(parts, sep) ==
    IF parts = <<>> THEN <<>>
    ELSE IF Len(parts) = 1 THEN parts[1]
    ELSE parts[1] \o <<sep>> \o JoinSep(Tail(parts), sep)

\* The text of an IPv6 address of eight non-zero groups (nothing for
\* inet_ntop to compress), followed by "/prefixlen" unless the prefix
\* covers the whole address.
AddrText6(groups, prefixlen) ==
    JoinSep(groups, ":")
        \o (IF prefixlen = 128 THEN <<>> ELSE <<"/">> \o Digits(prefixlen))

_nl_af2str(family) ==
    CASE family = 2 -> "inet"
      [] family = 10 -> "inet6"
      [] OTHER -> "unspec"

_rtnl_scope2str(scope) ==
    CASE scope = 0 -> "global"
      [] scope = 253 -> "link"
      [] scope = 254 -> "host"
      [] OTHER -> "nowhere"

\* rtnl_link_i2name on a link cache: the name, or NULL for an unknown index.
_link_index_to_name(link_cache, index) ==
    IF index \in DOMAIN Links THEN Links[index] ELSE None

(***************************************************************************)
(* Python's str.split(sep): the pieces between the separators; a string    *)
(* without separator, the empty one included, is one piece.                *)
(***************************************************************************)
RECURSIVE split(_, _)
split(s, sep) ==
    IF \A i \in 1..Len(s) : s[i] # sep THEN <<s>>
    ELSE LET i == CHOOSE k \in 1..Len(s) :
                      s[k] = sep /\ \A j \in 1..(k - 1) : s[j] # sep
         IN <<SubSeq(s, 1, i - 1)>> \o split(SubSeq(s, i + 1, Len(s)), sep)

frozenset(list) == Range(list)

\* Python's `a or b`: b when a is None or empty.
Falsy(v) == v = None \/ v = ""

(***************************************************************************)
(* The record extractor.                                                   *)
(***************************************************************************)
_addr_flags(addr) ==
    frozenset(split(_rtnl_addr_flags2str(addr.flags, CHARBUFFSIZE * 2), ","))

_addr_scope(addr) == _rtnl_scope2str(addr.scope)

_addr_family(addr) == _nl_af2str(addr.family)

_addr_local(addr) == _nl_addr2str(addr.local, CHARBUFFSIZE)

_addr_info_link_first(link_cache, addr) ==
    \* variant: the link name is preferred to the native label
    LET index == addr.ifindex
        name == _link_index_to_name(link_cache, index)
    IN [label |-> IF Falsy(name) THEN addr.label ELSE name,
        index |-> index,
        family |-> _addr_family(addr),
        prefixlen |-> addr.prefixlen,
        scope |-> _addr_scope(addr),
        flags |-> _addr_flags(addr),
        address |-> _addr_local(addr)]

\* The native calls one extraction makes, in the order of evaluation.
_addr_info_calls_label_last(link_cache, addr) ==
    \* variant: the label entry closes the dictionary
    <<"rtnl_addr_get_ifindex",
      "rtnl_addr_get_family", "nl_af2str",
      "rtnl_addr_get_prefixlen",
      "rtnl_addr_get_scope", "rtnl_scope2str",
      "rtnl_addr_get_flags", "rtnl_addr_flags2str",
      "rtnl_addr_get_local", "nl_addr2str",
      "rtnl_addr_get_label">>
    \o (IF Falsy(addr.label) THEN <<"rtnl_link_i2name">> ELSE <<>>)

_addr_info_calls(link_cache, addr) ==
    <<"rtnl_addr_get_ifindex", "rtnl_addr_get_label">>
    \o (IF Falsy(addr.label) THEN <<"rtnl_link_i2name">> ELSE <<>>)
    \o <<"rtnl_addr_get_family", "nl_af2str",
         "rtnl_addr_get_prefixlen",
         "rtnl_addr_get_scope", "rtnl_scope2str",
         "rtnl_addr_get_flags", "rtnl_addr_flags2str",
         "rtnl_addr_get_local", "nl_addr2str">>

_addr_info(link_cache, addr) ==
    LET index == addr.ifindex
    IN [label |-> IF Falsy(addr.label)
                  THEN _link_index_to_name(link_cache, index)
                  ELSE addr.label,
        index |-> index,
        family |-> _addr_family(addr),
        prefixlen |-> addr.prefixlen,
        scope |-> _addr_scope(addr),
        flags |-> _addr_flags(addr),
        address |-> _addr_local(addr)]


(***************************************************************************)
(* Exceptions.                                                             *)
(***************************************************************************)
NoExc == [type |-> "none", errno |-> 0, msg |-> ""]
GeneratorExit == [type |-> "GeneratorExit", errno |-> 0, msg |-> ""]
IOError(errno, msg) == [type |-> "IOError", errno |-> errno, msg |-> msg]
\* Whatever a failing field getter or converter raises inside _addr_info.
ExtractError == [type |-> "Exception", errno |-> 0, msg |-> "extract"]

\* What the consumer's next() / close() call ends with.
Outcome(e) ==
    CASE e.type = "none" -> "stop"               \* StopIteration
      [] e.type = "GeneratorExit" -> "closed"    \* close() returns
      [] OTHER -> "raise"                        \* the exception propagates

(***************************************************************************)
(* The native library: return codes of the cache allocators (0, or a       *)
(* negative NLE_* code) and the error string it keeps for the last one.    *)
(***************************************************************************)
AllocCodes == {0, -5, -7}      \* rtnl_addr_alloc_cache
LinkAllocCodes == {0, -5}      \* rtnl_link_alloc_cache
SocketFailCode == -5           \* a socket that cannot be opened

NlErrStr(rc) ==
    CASE rc = -5 -> "Out of memory"
      [] rc = -7 -> "Invalid input data or parameter"
      [] OTHER -> "Unspecific failure"

_nl_cache_get_first(cache) == IF Len(cache) = 0 THEN NULL ELSE 1

_nl_cache_get_next_skip(cache, pos) ==
    \* variant: the cursor is advanced twice
    IF pos + 1 < Len(cache) THEN pos + 2 ELSE NULL

_nl_cache_get_next(cache, pos) == IF pos < Len(cache) THEN pos + 1 ELSE NULL

(***************************************************************************)
(* The address cache allocator of each library generation.  rc and cache   *)
(* are what the native allocator returned and stored through its           *)
(* out-parameter; errstr is what _nl_geterror() returns when asked.        *)
(***************************************************************************)
_rtnl_addr_alloc_cache_raw(rc, cache, errstr) ==
    \* variant: the native code is passed on without negation
    IF rc # 0
    THEN [raised |-> TRUE, exc |-> IOError(rc, errstr), cache |-> NULL]
    ELSE [raised |-> FALSE, exc |-> NoExc, cache |-> cache]

_rtnl_addr_alloc_cache(rc, cache, errstr) ==
    IF rc # 0
    THEN [raised |-> TRUE, exc |-> IOError(-rc, errstr), cache |-> NULL]
    ELSE [raised |-> FALSE, exc |-> NoExc, cache |-> cache]

\* libnl-1: the generic helper, a NULL cache is the failure.
_alloc_cache(rc, cache, errstr) ==
    IF cache = NULL
    THEN [raised |-> TRUE,
          exc |-> IOError(-rc, "Failed to allocate the cache"), cache |-> NULL]
    ELSE [raised |-> FALSE, exc |-> NoExc, cache |-> cache]

(***************************************************************************)
(* The nesting of the three with statements of iter_addrs: where control   *)
(* goes when a scope is left or cannot be entered.                         *)
(***************************************************************************)
BodyExitSkipLink == "exit_addr"    \* variant: the link cache is not scoped
BodyExitStay == "loop"             \* variant: the loop has no way out
BodyExit == "exit_link"            \* leaving the body of the innermost with

LinkExitNextSkipAddr == "exit_sock" \* variant: the address cache is not scoped
LinkExitNextWalk == "get_first"     \* variant: the walk follows the link scope
LinkExitNext == "exit_addr"         \* after the link cache's scope

AddrExitNext == "exit_sock"         \* after the address cache's scope

OnLinkAllocFailSkipAddr == "exit_sock"  \* variant: link cache allocated outside
OnLinkAllocFail == "exit_addr"          \* _nl_link_cache(sock) raised

OnAddrAllocFail == "exit_sock"          \* _nl_addr_cache(sock) raised

\* An exception raised by the body of the innermost with statement.
SwallowInBody(e) == [pc |-> "get_next", exc |-> NoExc]   \* variant: suppressed
RaiseInBody(e) == [pc |-> BodyExit, exc |-> e]

\* Line 39 yields every record _addr_info returns.
YieldedIfLabelled(info) == ~Falsy(info.label)   \* variant: unlabelled skipped
YieldedNever(info) == FALSE      \* variant: records collected, none handed out
Yielded(info) == TRUE

(***************************************************************************)
(* State.                                                                  *)
(***************************************************************************)
VARIABLES
    libnl3,      \* _ethtool_uses_libnl3() when the module was imported
    kernel,      \* the kernel's address list, what an address cache mirrors
    pool,        \* _pool: the sockets waiting in the pool
    opened,      \* number of sockets the pool has opened
    live,        \* the native caches allocated and not freed
    nl_errstr,   \* the native library's current error string
    pc,          \* per generator: where its frame stands
    sock,        \* per generator: local sock
    addr_cache,  \* per generator: local addr_cache
    link_cache,  \* per generator: local link_cache
    addr,        \* per generator: local addr, a position of the cache or NULL
    err,         \* per generator: local err of the allocator wrapper
    exc,         \* per generator: the exception unwinding its frame
    ret,         \* per generator: how the consumer's last call ended
    out,         \* per generator: the records the consumer received
    reqs,        \* per generator: next() calls made
    idle,        \* per generator: next() calls made after it ended
    closed,      \* per generator: the consumer closed (abandoned) it
    trace,       \* per generator: the native operations it performed
    probe,       \* extractor check: the native address handed to _addr_info
    info,        \* extractor check: the record _addr_info returned
    calls        \* extractor check: the native calls _addr_info made

vars == <<libnl3, kernel, pool, opened, live, nl_errstr, pc, sock, addr_cache,
          link_cache, addr, err, exc, ret, out, reqs, idle, closed, trace, probe,
          info, calls>>

env == <<libnl3, kernel>>
locals == <<sock, addr_cache, link_cache, addr, err>>
extractor == <<probe, info, calls>>
consumer == <<reqs, idle, closed>>

\* A native operation: its name, the cache position it is about (or 0) and
\* the code it returned.
Event(op, x, rc) == [op |-> op, x |-> x, rc |-> rc]
Log(c, e) == trace' = [trace EXCEPT ![c] = Append(@, e)]

\* The handle of a newly allocated native cache: one no live cache has.
\* variant: a handle numbered by the count of the live caches
FreshCacheCounted == Cardinality(live) + 1
FreshCache == CHOOSE n \in 1..(Cardinality(live) + 1) : n \notin live

\* _cache_manager's exit: _nl_cache_free(cache)
_nl_cache_free(cache) == live \ {cache}

\* _pool.socket(): a socket waiting in the pool, or else a newly opened one;
\* on exit the socket is put back.
_pool_get == IF pool # {} THEN CHOOSE x \in pool : \A y \in pool : x <= y
             ELSE opened + 1
_pool_put(s) == pool \cup {s}

\* Calling iter_addrs() runs none of its body: a generator object is made.
StartPcEager == "enter_sock"   \* variant: the body starts with the call
StartPc == "created"

\* A generator that has ended stays ended, whatever is asked of it.
AfterEndRestart == "enter_sock"   \* variant: a request restarts the body
AfterEnd == "done"

\* The allocator bound to _rtnl_addr_alloc_cache when the module was
\* imported: the libnl-3 wrapper or the libnl-1 helper.
UsesLibnl3Reprobed(c) == libnl3 /\ c = 1   \* variant: probed at each call
UsesLibnl3(c) == libnl3

InitGens(G) ==
    /\ pool = {}
    /\ opened = 0
    /\ live = {}
    /\ nl_errstr = ""
    /\ pc = [c \in G |-> StartPc]
    /\ sock = [c \in G |-> NULL]
    /\ addr_cache = [c \in G |-> NULL]
    /\ link_cache = [c \in G |-> NULL]
    /\ addr = [c \in G |-> NULL]
    /\ err = [c \in G |-> 0]
    /\ exc = [c \in G |-> NoExc]
    /\ ret = [c \in G |-> "none"]
    /\ out = [c \in G |-> <<>>]
    /\ reqs = [c \in G |-> 0]
    /\ idle = [c \in G |-> 0]
    /\ closed = [c \in G |-> FALSE]
    /\ trace = [c \in G |-> <<>>]

InitCalls == InitGens(Calls)

Init ==
    /\ libnl3 \in BOOLEAN
    /\ kernel \in SeqsUpTo(FixtureAddrs, MaxAddrs)
    /\ InitCalls
    /\ probe = <<>>
    /\ info = <<>>
    /\ calls = <<>>

(***************************************************************************)
(* The consumer.                                                           *)
(***************************************************************************)
\* next(gen)
Request(c) ==
    /\ \/ /\ pc[c] = "created"
          /\ pc' = [pc EXCEPT ![c] = "enter_sock"]
          /\ ret' = [ret EXCEPT ![c] = "running"]
          /\ idle' = idle
       \/ /\ pc[c] = "suspended"
          /\ pc' = [pc EXCEPT ![c] = "get_next"]
          /\ ret' = [ret EXCEPT ![c] = "running"]
          /\ idle' = idle
       \/ /\ pc[c] = "done"
          /\ idle[c] < MaxIdle
          /\ pc' = [pc EXCEPT ![c] = AfterEnd]
          /\ ret' = [ret EXCEPT ![c] = "stop"]
          /\ idle' = [idle EXCEPT ![c] = @ + 1]
    /\ reqs' = [reqs EXCEPT ![c] = @ + 1]
    /\ UNCHANGED <<env, pool, opened, live, nl_errstr, locals, exc, out,
                   closed, trace, extractor>>

\* gen.close(), also what dropping the last reference to gen does
Close(c) ==
    /\ \/ /\ pc[c] = "created"
          /\ pc' = [pc EXCEPT ![c] = "done"]
          /\ ret' = [ret EXCEPT ![c] = "closed"]
          /\ exc' = exc
       \/ /\ pc[c] = "suspended"
          /\ pc' = [pc EXCEPT ![c] = BodyExit]
          /\ ret' = [ret EXCEPT ![c] = "running"]
          /\ exc' = [exc EXCEPT ![c] = GeneratorExit]
    /\ closed' = [closed EXCEPT ![c] = TRUE]
    /\ UNCHANGED <<env, pool, opened, live, nl_errstr, locals, out, reqs,
                   idle, trace, extractor>>

(***************************************************************************)
(* The generator body, iter_addrs.                                         *)
(***************************************************************************)
\* with _pool.socket() as sock: a pooled socket, or a newly opened one
EnterSocket(c) ==
    /\ pc[c] = "enter_sock"
    /\ LET s == _pool_get
       IN /\ sock' = [sock EXCEPT ![c] = s]
          /\ pool' = pool \ {s}
          /\ opened' = IF pool # {} THEN opened ELSE opened + 1
          /\ Log(c, Event("socket", 0, 0))
    /\ pc' = [pc EXCEPT ![c] = "addr_alloc"]
    /\ UNCHANGED <<env, live, nl_errstr, addr_cache, link_cache, addr, err,
                   exc, ret, out, consumer, extractor>>

\* the pool cannot open a socket: the call fails before anything is held
SocketFail(c) ==
    /\ pc[c] = "enter_sock"
    /\ pool = {}
    /\ nl_errstr' = NlErrStr(SocketFailCode)
    /\ exc' = [exc EXCEPT ![c] =
                  IOError(-SocketFailCode, NlErrStr(SocketFailCode))]
    /\ pc' = [pc EXCEPT ![c] = "done"]
    /\ ret' = [ret EXCEPT ![c] = "raise"]
    /\ UNCHANGED <<env, pool, opened, live, locals, out, consumer, trace,
                   extractor>>

\* _addr_alloc_cache(sock, byref(cache)): the native allocator
AddrAlloc(c) ==
    /\ pc[c] = "addr_alloc"
    /\ \E rc \in AllocCodes :
          LET cache == IF rc = 0 THEN FreshCache ELSE NULL
          IN /\ err' = [err EXCEPT ![c] = rc]
             /\ addr_cache' = [addr_cache EXCEPT ![c] = cache]
             /\ live' = IF rc = 0 THEN live \cup {cache} ELSE live
             /\ nl_errstr' = IF rc = 0 THEN nl_errstr ELSE NlErrStr(rc)
             /\ Log(c, Event("addr_alloc", 0, rc))
    /\ pc' = [pc EXCEPT ![c] = "addr_check"]
    /\ UNCHANGED <<env, pool, opened, sock, link_cache, addr, exc, ret, out,
                   consumer, extractor>>

\* the allocator wrapper returns the cache to _cache_manager or raises
AddrCheck(c) ==
    /\ pc[c] = "addr_check"
    /\ LET r == IF UsesLibnl3(c)
                THEN _rtnl_addr_alloc_cache(err[c], addr_cache[c], nl_errstr)
                ELSE _alloc_cache(err[c], addr_cache[c], nl_errstr)
       IN /\ addr_cache' = [addr_cache EXCEPT ![c] = r.cache]
          /\ exc' = [exc EXCEPT ![c] = r.exc]
          /\ pc' = [pc EXCEPT ![c] =
                       IF r.raised THEN OnAddrAllocFail ELSE "enter_link"]
    /\ UNCHANGED <<env, pool, opened, live, nl_errstr, sock, link_cache, addr,
                   err, ret, out, consumer, trace, extractor>>

\* with _nl_link_cache(sock) as link_cache
EnterLinkCache(c) ==
    /\ pc[c] = "enter_link"
    /\ \E rc \in LinkAllocCodes :
          LET cache == IF rc = 0 THEN FreshCache ELSE NULL
          IN /\ link_cache' = [link_cache EXCEPT ![c] = cache]
             /\ live' = IF rc = 0 THEN live \cup {cache} ELSE live
             /\ nl_errstr' = IF rc = 0 THEN nl_errstr ELSE NlErrStr(rc)
             /\ exc' = [exc EXCEPT ![c] =
                           IF rc = 0 THEN NoExc
                           ELSE IOError(-rc, NlErrStr(rc))]
             /\ pc' = [pc EXCEPT ![c] =
                          IF rc = 0 THEN "get_first" ELSE OnLinkAllocFail]
             /\ Log(c, Event("link_alloc", 0, rc))
    /\ UNCHANGED <<env, pool, opened, sock, addr_cache, addr, err, ret, out,
                   consumer, extractor>>

\* addr = _nl_cache_get_first(addr_cache)
GetFirst(c) ==
    /\ pc[c] = "get_first"
    /\ addr' = [addr EXCEPT ![c] = _nl_cache_get_first(kernel)]
    /\ Log(c, Event("get_first", 0, 0))
    /\ pc' = [pc EXCEPT ![c] = "loop"]
    /\ UNCHANGED <<env, pool, opened, live, nl_errstr, sock, addr_cache,
                   link_cache, err, exc, ret, out, consumer, extractor>>

\* while addr: false, the body of the with statements is left
LoopEnd(c) ==
    /\ pc[c] = "loop"
    /\ addr[c] = NULL
    /\ pc' = [pc EXCEPT ![c] = BodyExit]
    /\ UNCHANGED <<env, pool, opened, live, nl_errstr, locals, exc, ret, out,
                   consumer, trace, extractor>>

\* yield _addr_info(link_cache, addr)
Yield(c) ==
    /\ pc[c] = "loop"
    /\ addr[c] # NULL
    /\ LET rec == _addr_info(link_cache[c], kernel[addr[c]])
       IN /\ Log(c, Event("addr_info", addr[c], 0))
          /\ IF Yielded(rec)
             THEN /\ out' = [out EXCEPT ![c] = Append(@, rec)]
                  /\ pc' = [pc EXCEPT ![c] = "suspended"]
                  /\ ret' = [ret EXCEPT ![c] = "yield"]
             ELSE /\ out' = out
                  /\ pc' = [pc EXCEPT ![c] = "get_next"]
                  /\ ret' = ret
    /\ UNCHANGED <<env, pool, opened, live, nl_errstr, locals, exc, consumer,
                   extractor>>

\* _addr_info(link_cache, addr) raises
ExtractFail(c) ==
    /\ pc[c] = "loop"
    /\ addr[c] # NULL
    /\ LET r == RaiseInBody(ExtractError)
       IN /\ pc' = [pc EXCEPT ![c] = r.pc]
          /\ exc' = [exc EXCEPT ![c] = r.exc]
    /\ Log(c, Event("addr_info", addr[c], 1))
    /\ UNCHANGED <<env, pool, opened, live, nl_errstr, locals, ret, out,
                   consumer, extractor>>

\* addr = _nl_cache_get_next(addr)
GetNext(c) ==
    /\ pc[c] = "get_next"
    /\ addr' = [addr EXCEPT ![c] = _nl_cache_get_next(kernel, addr[c])]
    /\ Log(c, Event("get_next", addr[c], 0))
    /\ pc' = [pc EXCEPT ![c] = "loop"]
    /\ UNCHANGED <<env, pool, opened, live, nl_errstr, sock, addr_cache,
                   link_cache, err, exc, ret, out, consumer, extractor>>

\* leaving `with _nl_link_cache(sock)`: _nl_cache_free(link_cache)
ExitLinkCache(c) ==
    /\ pc[c] = "exit_link"
    /\ live' = _nl_cache_free(link_cache[c])
    /\ link_cache' = [link_cache EXCEPT ![c] = NULL]
    /\ Log(c, Event("link_free", 0, 0))
    /\ pc' = [pc EXCEPT ![c] = LinkExitNext]
    /\ UNCHANGED <<env, pool, opened, nl_errstr, sock, addr_cache, addr, err,
                   exc, ret, out, consumer, extractor>>

\* leaving `with _nl_addr_cache(sock)`: _nl_cache_free(addr_cache)
ExitAddrCache(c) ==
    /\ pc[c] = "exit_addr"
    /\ live' = _nl_cache_free(addr_cache[c])
    /\ addr_cache' = [addr_cache EXCEPT ![c] = NULL]
    /\ Log(c, Event("addr_free", 0, 0))
    /\ pc' = [pc EXCEPT ![c] = AddrExitNext]
    /\ UNCHANGED <<env, pool, opened, nl_errstr, sock, link_cache, addr, err,
                   exc, ret, out, consumer, extractor>>

\* leaving `with _pool.socket()`: the socket goes back to the pool and the
\* generator ends: StopIteration, or the exception that unwound the frame
ExitSocket(c) ==
    /\ pc[c] = "exit_sock"
    /\ pool' = _pool_put(sock[c])
    /\ sock' = [sock EXCEPT ![c] = NULL]
    /\ Log(c, Event("socket_put", 0, 0))
    /\ pc' = [pc EXCEPT ![c] = "done"]
    /\ ret' = [ret EXCEPT ![c] = Outcome(exc[c])]
    /\ UNCHANGED <<env, opened, live, nl_errstr, addr_cache, link_cache, addr,
                   err, exc, out, consumer, extractor>>

\* A statement of the generator body.
Body(c) ==
    \/ EnterSocket(c)
    \/ SocketFail(c)
    \/ AddrAlloc(c)
    \/ AddrCheck(c)
    \/ EnterLinkCache(c)
    \/ GetFirst(c)
    \/ LoopEnd(c)
    \/ Yield(c)
    \/ ExtractFail(c)
    \/ GetNext(c)
    \/ ExitLinkCache(c)
    \/ ExitAddrCache(c)
    \/ ExitSocket(c)

Next ==
    \E c \in Calls :
        \/ Request(c)
        \/ Close(c)
        \/ Body(c)

Spec == Init /\ [][Next]_vars

(***************************************************************************)
(* Several generators alive at once, consumed from any threads, over a     *)
(* kernel with one address.                                                *)
(***************************************************************************)
InitLive ==
    /\ libnl3 \in BOOLEAN
    /\ kernel \in {<<a>> : a \in FixtureAddrs}
    /\ InitGens(LiveCalls)
    /\ probe = <<>>
    /\ info = <<>>
    /\ calls = <<>>

NextLive ==
    \E c \in LiveCalls :
        \/ Request(c)
        \/ Close(c)
        \/ Body(c)

SpecLive == InitLive /\ [][NextLive]_vars

(***************************************************************************)
(* A consumer that keeps asking and an interpreter that keeps running the  *)
(* body: a request that can be made is made, a statement that can run      *)
(* runs.  Closing stays possible and is not forced.  Generators do not     *)
(* wait for each other, so one is followed on its own.                     *)
(***************************************************************************)
OneCall == {1}

InitOne ==
    /\ libnl3 \in BOOLEAN
    /\ kernel \in SeqsUpTo(FixtureAddrs, MaxAddrs)
    /\ InitGens(OneCall)
    /\ probe = <<>>
    /\ info = <<>>
    /\ calls = <<>>

NextOne ==
    \E c \in OneCall :
        \/ Request(c)
        \/ Close(c)
        \/ Body(c)

Fairness == \A c \in OneCall : WF_vars(Request(c)) /\ WF_vars(Body(c))

SpecFair == InitOne /\ [][NextOne]_vars /\ Fairness

(***************************************************************************)
(* The record extractor on its own: _addr_info applied to one native       *)
(* address, over every combination of index, label and flag list.          *)
(***************************************************************************)
\* IPv6 addresses whose eight groups all have w hex digits, w = 1..4.
Probe6Addrs ==
    { [ifindex |-> 1, label |-> None, family |-> 10, prefixlen |-> p,
       scope |-> 0, flags |-> <<>>,
       local |-> AddrText6([g \in 1..8 |-> [i \in 1..w |-> "f"]], p)] :
      w \in 1..4, p \in {0, 64, 128} }

ProbeAddrs ==
    { [ifindex |-> i, label |-> l, family |-> 2, prefixlen |-> 24,
       scope |-> 0, flags |-> f, local |-> Text4] :
      i \in {1, 2, 9}, l \in {None, "", "loopback"},
      f \in SeqsUpTo(FlagNames, MaxFlags) }
    \cup Probe6Addrs

InitExtract ==
    /\ libnl3 = TRUE
    /\ kernel = <<>>
    /\ InitCalls
    /\ probe \in {<<a>> : a \in ProbeAddrs}
    /\ info = <<>>
    /\ calls = <<>>

ExtractOne ==
    /\ info = <<>>
    /\ info' = <<_addr_info(1, probe[1])>>
    /\ calls' = _addr_info_calls(1, probe[1])
    /\ UNCHANGED <<env, pool, opened, live, nl_errstr, pc, locals, exc, ret,
                   out, consumer, trace, probe>>

NextExtract == ExtractOne

SpecExtract == InitExtract /\ [][NextExtract]_vars

(***************************************************************************)
(* Vocabulary of the properties.                                           *)
(***************************************************************************)
IsAcquire(e) == e.op \in {"socket", "addr_alloc", "link_alloc"} /\ e.rc = 0
IsRelease(e) == e.op \in {"socket_put", "addr_free", "link_free"}
IsExtract(e) == e.op = "addr_info"

OpsOf(events) == [i \in 1..Len(events) |-> events[i].op]
AcquireOps(c) == OpsOf(SelectSeq(trace[c], IsAcquire))
ReleaseOps(c) == OpsOf(SelectSeq(trace[c], IsRelease))
Extracts(c) == SelectSeq(trace[c], IsExtract)

Count(c, op) == Cardinality({i \in 1..Len(trace[c]) : trace[c][i].op = op})
CountOk(c, op) ==
    Cardinality({i \in 1..Len(trace[c]) :
                    trace[c][i].op = op /\ trace[c][i].rc = 0})

Undo(op) ==
    CASE op = "socket" -> "socket_put"
      [] op = "addr_alloc" -> "addr_free"
      [] op = "link_alloc" -> "link_free"

Reverse(s) == [i \in 1..Len(s) |-> s[Len(s) + 1 - i]]
IsPrefix(p, s) == Len(p) <= Len(s) /\ SubSeq(s, 1, Len(p)) = p

\* The releases that undo the acquisitions made so far, last acquired first.
DueReleases(c) ==
    Reverse([i \in 1..Len(AcquireOps(c)) |-> Undo(AcquireOps(c)[i])])

HoldsNothing(c) ==
    /\ sock[c] = NULL
    /\ addr_cache[c] = NULL
    /\ link_cache[c] = NULL

AllocFailed(c, op) ==
    \E i \in 1..Len(trace[c]) : trace[c][i].op = op /\ trace[c][i].rc # 0
ExtractFailed(c) == AllocFailed(c, "addr_info")

\* The generator ran to the end of its loop: set up, not closed, no failure.
Exhausted(c) ==
    /\ pc[c] = "done"
    /\ ~closed[c]
    /\ exc[c] = NoExc
    /\ trace[c] # <<>>

Miss(a) == Falsy(a.label) /\ a.ifindex \notin DOMAIN Links

(***************************************************************************)
(* C1.  Once the consumer has abandoned (closed) a sequence, after any     *)
(* number of records, every resource has been released as often as it     *)
(* was acquired: socket, address cache and link cache, and the generator   *)
(* holds none of them.                                                     *)
(***************************************************************************)
C1_AbandonBalanced ==
    \A c \in Calls :
        (closed[c] /\ pc[c] = "done") =>
            /\ Count(c, "socket") = Count(c, "socket_put")
            /\ CountOk(c, "addr_alloc") = Count(c, "addr_free")
            /\ CountOk(c, "link_alloc") = Count(c, "link_free")
            /\ HoldsNothing(c)
            /\ live = {x \in live : \E d \in Calls \ {c} :
                                        x \in {addr_cache[d], link_cache[d]}}

\* abandoned after one record of two (k = 1 = N - 1), all three acquired
C1_Witness ==
    \E c \in Calls :
        /\ closed[c] /\ pc[c] = "done"
        /\ Len(kernel) = 2 /\ Len(out[c]) = 1
        /\ Count(c, "socket") = 1
        /\ CountOk(c, "addr_alloc") = 1
        /\ CountOk(c, "link_alloc") = 1

(***************************************************************************)
(* C2.  On every exit path the releases made so far undo the acquisitions  *)
(* last-acquired first (link cache, address cache, socket); no cache is    *)
(* held once the socket is back in the pool; a generator that has ended    *)
(* has made all the releases due.                                          *)
(***************************************************************************)
C2_ReverseOrderRelease ==
    \A c \in Calls :
        /\ IsPrefix(ReleaseOps(c), DueReleases(c))
        /\ sock[c] = NULL => (addr_cache[c] = NULL /\ link_cache[c] = NULL)
        /\ addr_cache[c] = NULL => link_cache[c] = NULL
        /\ pc[c] = "done" => ReleaseOps(c) = DueReleases(c)

\* an extraction failure unwound all three scopes
C2_Witness ==
    \E c \in Calls :
        /\ pc[c] = "done"
        /\ exc[c] = ExtractError
        /\ ReleaseOps(c) = <<"link_free", "addr_free", "socket_put">>

(***************************************************************************)
(* C3.  When the allocation of the address cache or of the link cache      *)
(* fails, no record is produced and nothing is read from a cache; the      *)
(* call ends with the failure raised to the caller and the socket back in  *)
(* the pool; after a link cache failure the address cache is freed once,   *)
(* before the socket is returned.                                          *)
(***************************************************************************)
C3_AllocFailure ==
    \A c \in Calls :
        (AllocFailed(c, "addr_alloc") \/ AllocFailed(c, "link_alloc")) =>
            /\ out[c] = <<>>
            /\ Count(c, "get_first") = 0
            /\ Count(c, "addr_info") = 0
            /\ pc[c] \in {"addr_check", "exit_addr", "exit_sock", "done"}
            /\ pc[c] # "addr_check" => exc[c].type = "IOError"
            /\ pc[c] = "done" =>
                  /\ HoldsNothing(c)
                  /\ idle[c] = 0 => ret[c] = "raise"
                  /\ ReleaseOps(c) =
                        IF AllocFailed(c, "link_alloc")
                        THEN <<"addr_free", "socket_put">>
                        ELSE <<"socket_put">>

\* the link cache allocation failed and the call has ended
C3_Witness ==
    \E c \in Calls :
        /\ AllocFailed(c, "link_alloc")
        /\ pc[c] = "done"
        /\ ret[c] = "raise"

(***************************************************************************)
(* C4.  A sequence consumed to exhaustion has produced one record per      *)
(* entry of the address cache, in the cache's order: the entries were      *)
(* extracted at positions 1, 2, ..., N and record i is the record of       *)
(* entry i.                                                                *)
(***************************************************************************)
C4_OneRecordPerEntry ==
    \A c \in Calls :
        Exhausted(c) =>
            /\ Len(out[c]) = Len(kernel)
            /\ [i \in 1..Len(Extracts(c)) |-> Extracts(c)[i].x]
                  = [i \in 1..Len(kernel) |-> i]
            /\ \A i \in 1..Len(kernel) :
                  /\ i <= Len(out[c])
                  /\ out[c][i].index = kernel[i].ifindex
                  /\ out[c][i].address = kernel[i].local
                  /\ out[c][i].prefixlen = kernel[i].prefixlen

\* two different entries, both produced
C4_Witness ==
    \E c \in Calls :
        /\ Exhausted(c)
        /\ Len(kernel) = 2
        /\ kernel[1] # kernel[2]
        /\ Len(out[c]) = 2

(***************************************************************************)
(* C5.  The label of a record is the native label of the address when      *)
(* that is non-empty, and otherwise what the link cache gives for the      *)
(* interface index.                                                        *)
(***************************************************************************)
C5_LabelPreference ==
    info # <<>> =>
        LET a == probe[1]
            r == info[1]
        IN IF a.label # None /\ a.label # ""
           THEN r.label = a.label
           ELSE r.label = IF a.ifindex \in DOMAIN Links
                          THEN Links[a.ifindex] ELSE None

\* a native label on an interface the link cache also names
C5_Witness ==
    /\ info # <<>>
    /\ probe[1].label = "loopback"
    /\ probe[1].ifindex = 1
    /\ info[1].label = "loopback"

(***************************************************************************)
(* C6.  An entry without native label whose index the link cache does not  *)
(* know still gives a record, with an absent label: each extraction that   *)
(* returns is a record received, the record of such an entry has no        *)
(* label, and a sequence consumed to exhaustion has a record for every     *)
(* entry, those after the miss included.                                   *)
(***************************************************************************)
C6_MissAbsorbed ==
    \A c \in Calls :
        /\ Len(out[c]) =
              Cardinality({i \in 1..Len(Extracts(c)) : Extracts(c)[i].rc = 0})
        /\ \A i \in 1..Len(out[c]) :
              (i <= Len(Extracts(c)) /\ Miss(kernel[Extracts(c)[i].x])) =>
                  /\ Falsy(out[c][i].label)
                  /\ out[c][i].index = kernel[Extracts(c)[i].x].ifindex
        /\ Exhausted(c) => Len(out[c]) = Len(kernel)

\* a miss first, a resolvable entry after it, both received
C6_Witness ==
    \E c \in Calls :
        /\ Exhausted(c)
        /\ Len(kernel) = 2
        /\ Miss(kernel[1])
        /\ ~Miss(kernel[2])
        /\ Len(out[c]) = 2
        /\ out[c][1].label = None
        /\ out[c][2].label = "eth0"

(***************************************************************************)
(* C7.  The flags of a record are exactly the flag names the native flag   *)
(* string lists, each once, whatever their order.                          *)
(***************************************************************************)
C7_FlagsAreListedNames ==
    info # <<>> => info[1].flags = Range(probe[1].flags)

(***************************************************************************)
(* C8.  The flags of an address without flags are the empty set, and no    *)
(* flag of any record is the empty string.                                 *)
(***************************************************************************)
C8_NoEmptyFlag ==
    info # <<>> =>
        /\ probe[1].flags = <<>> => info[1].flags = {}
        /\ \A f \in info[1].flags : f # <<>>

(***************************************************************************)
(* C9.  Under libnl-3 the address cache allocator hands on the cache the   *)
(* native allocator stored when that returned 0, and for a non-zero code   *)
(* err raises IOError(-err, the library's current error string) and        *)
(* hands on no cache.                                                      *)
(***************************************************************************)
C9_AllocErrorTranslated ==
    [][\A c \in Calls :
          (libnl3 /\ pc[c] = "addr_check" /\ pc'[c] # "addr_check") =>
              IF err[c] = 0
              THEN /\ addr_cache'[c] = addr_cache[c]
                   /\ addr_cache'[c] \in live
                   /\ exc'[c] = NoExc
                   /\ pc'[c] = "enter_link"
              ELSE /\ exc'[c] = IOError(-err[c], nl_errstr)
                   /\ addr_cache'[c] = NULL
                   /\ pc'[c] = "exit_sock"]_vars

\* the native code -5 has become IOError(5, "Out of memory")
C9_Witness ==
    \E c \in Calls :
        /\ libnl3
        /\ err[c] = -5
        /\ exc[c] = IOError(5, "Out of memory")

(***************************************************************************)
(* C10.  A failure of _addr_info ends the call: the exception is the one   *)
(* unwinding the frame and is raised to the caller, the records received   *)
(* are those of the entries before the failing one, and link cache,        *)
(* address cache and socket are each released once.                        *)
(***************************************************************************)
C10_ExtractFailureFatal ==
    \A c \in Calls :
        ExtractFailed(c) =>
            /\ exc[c] = ExtractError
            /\ pc[c] \in {"exit_link", "exit_addr", "exit_sock", "done"}
            /\ Extracts(c)[Len(Extracts(c))].rc # 0
            /\ Len(out[c]) = Len(Extracts(c)) - 1
            /\ trace[c][Len(trace[c])].op
                  \in {"addr_info", "link_free", "addr_free", "socket_put"}
            /\ pc[c] = "done" =>
                  /\ HoldsNothing(c)
                  /\ idle[c] = 0 => ret[c] = "raise"
                  /\ ReleaseOps(c) = <<"link_free", "addr_free", "socket_put">>

\* the second entry failed after the first was received
C10_Witness ==
    \E c \in Calls :
        /\ ExtractFailed(c)
        /\ pc[c] = "done"
        /\ Len(out[c]) = 1
        /\ ret[c] = "raise"

(***************************************************************************)
(* C12.  With several generators alive at once, every handle a generator   *)
(* is about to pass to a native operation is one it holds itself: its      *)
(* socket is out of the pool and no other generator's, its caches are      *)
(* live and no other generator's; a generator that has ended holds         *)
(* nothing.                                                                *)
(***************************************************************************)
Gens == DOMAIN pc

PassesSock(c) == pc[c] \in {"addr_alloc", "enter_link", "exit_sock"}
PassesAddrCache(c) ==
    \/ pc[c] \in {"get_first", "suspended", "exit_addr"}
    \/ pc[c] \in {"loop", "get_next"} /\ addr[c] # NULL
PassesLinkCache(c) ==
    \/ pc[c] = "exit_link"
    \/ pc[c] = "loop" /\ addr[c] # NULL

OwnSocket(c) ==
    /\ sock[c] # NULL
    /\ sock[c] \notin pool
    /\ \A d \in Gens \ {c} : sock[d] # sock[c]

OwnCache(c, h) ==
    /\ h \in live
    /\ \A d \in Gens \ {c} : h \notin {addr_cache[d], link_cache[d]}
    /\ OwnSocket(c)

C12_OwnHandlesOnly ==
    \A c \in Gens :
        /\ sock[c] # NULL => OwnSocket(c)
        /\ PassesSock(c) => OwnSocket(c)
        /\ PassesAddrCache(c) =>
              OwnCache(c, addr_cache[c]) /\ addr_cache[c] # link_cache[c]
        /\ PassesLinkCache(c) =>
              OwnCache(c, link_cache[c]) /\ addr_cache[c] # link_cache[c]
        /\ pc[c] = "done" => HoldsNothing(c)

\* two generators in the middle of their walks at the same time
C12_Witness ==
    \E c, d \in Gens :
        /\ c # d
        /\ pc[c] = "suspended"
        /\ pc[d] = "loop"
        /\ sock[c] # sock[d]

(***************************************************************************)
(* C14.  The walk follows the demand: the cursor is moved once per         *)
(* request (get_first for the first, get_next for the later ones), an      *)
(* entry is extracted only after the cursor reached it, and a generator    *)
(* waiting at its yield has moved the cursor and extracted exactly as      *)
(* often as records were requested, the last one at that position.         *)
(***************************************************************************)
CursorOps(c) == Count(c, "get_first") + Count(c, "get_next")

C14_DemandDriven ==
    \A c \in Calls :
        /\ CursorOps(c) <= reqs[c] - idle[c]
        /\ Count(c, "get_first") <= 1
        /\ Len(Extracts(c)) <= CursorOps(c)
        /\ \A i \in 1..Len(Extracts(c)) : Extracts(c)[i].x <= reqs[c]
        /\ \A i \in 1..Len(trace[c]) :
              trace[c][i].op = "get_next" =>
                  \E j \in 1..(i - 1) : trace[c][j].op = "get_first"
        /\ pc[c] = "suspended" =>
              /\ CursorOps(c) = reqs[c]
              /\ Len(Extracts(c)) = reqs[c]
              /\ Len(out[c]) = reqs[c]
              /\ addr[c] = reqs[c]

\* one record of two requested: the second entry has not been touched
C14_Witness ==
    \E c \in Calls :
        /\ pc[c] = "suspended"
        /\ Len(kernel) = 2
        /\ reqs[c] = 1
        /\ CursorOps(c) = 1
        /\ Len(Extracts(c)) = 1

(***************************************************************************)
(* C15.  The acquisitions are made in the order socket, address cache,     *)
(* link cache, and the whole walk happens with all three held: every       *)
(* cursor operation and every extraction comes after the three             *)
(* acquisitions and before any release.                                    *)
(***************************************************************************)
IsWalk(e) == e.op \in {"get_first", "get_next", "addr_info"}

C15_AllHeldDuringWalk ==
    \A c \in Calls :
        /\ IsPrefix(AcquireOps(c), <<"socket", "addr_alloc", "link_alloc">>)
        /\ pc[c] \in {"get_first", "loop", "suspended", "get_next"} =>
              /\ sock[c] # NULL /\ sock[c] \notin pool
              /\ addr_cache[c] \in live
              /\ link_cache[c] \in live
              /\ addr_cache[c] # link_cache[c]
        /\ \A i \in 1..Len(trace[c]) :
              IsWalk(trace[c][i]) =>
                  LET before == SubSeq(trace[c], 1, i - 1)
                  IN /\ OpsOf(SelectSeq(before, IsAcquire))
                           = <<"socket", "addr_alloc", "link_alloc">>
                     /\ SelectSeq(before, IsRelease) = <<>>

\* a whole walk of two entries, then the releases
C15_Witness ==
    \E c \in Calls :
        /\ Exhausted(c)
        /\ Len(kernel) = 2
        /\ Len(Extracts(c)) = 2
        /\ ReleaseOps(c) = <<"link_free", "addr_free", "socket_put">>

(***************************************************************************)
(* C18.  The library generation found when the module was imported never   *)
(* changes, and every generator allocates its address cache through the    *)
(* allocator of that generation: a failed allocation carries the native    *)
(* error string under libnl-3 and the helper's fixed message under         *)
(* libnl-1, for every generator alike.                                     *)
(***************************************************************************)
HelperMessage == "Failed to allocate the cache"

C18_StrategyFixed ==
    /\ [](\A c \in Gens :
            (AllocFailed(c, "addr_alloc") /\ pc[c] # "addr_check") =>
                /\ exc[c].type = "IOError"
                /\ exc[c].msg = HelperMessage <=> ~libnl3)
    /\ [][libnl3' = libnl3]_vars

\* two generators failed to allocate, both through the libnl-1 helper
C18_Witness ==
    \E c, d \in Gens :
        /\ c # d
        /\ ~libnl3
        /\ pc[c] = "done" /\ pc[d] = "done"
        /\ exc[c].msg = HelperMessage
        /\ exc[d].msg = HelperMessage

(***************************************************************************)
(* C19.  Nothing is acquired before the first record is requested: a       *)
(* generator on which next() was never called has performed no native      *)
(* operation and holds nothing, and while no generator has been asked      *)
(* for a record the socket pool has opened no socket.                      *)
(***************************************************************************)
C19_DeferredAcquisition ==
    /\ \A c \in Calls :
          reqs[c] = 0 =>
              /\ trace[c] = <<>>
              /\ out[c] = <<>>
              /\ HoldsNothing(c)
              /\ pc[c] \in {"created", "done"}
    /\ (\A c \in Calls : reqs[c] = 0) =>
          (opened = 0 /\ pool = {} /\ live = {})

\* a generator created and closed unconsumed
C19_Witness ==
    \E c \in Calls :
        /\ reqs[c] = 0
        /\ closed[c]
        /\ pc[c] = "done"
        /\ opened = 0

(***************************************************************************)
(* C20.  A generator that has ended stays ended: whatever is asked of it   *)
(* afterwards, it produces no record, performs no native operation and     *)
(* acquires nothing, and a request ends with StopIteration; a walk always  *)
(* starts at the first entry.                                              *)
(***************************************************************************)
C20_DeadOnceEnded ==
    /\ [][\A c \in Gens :
            pc[c] = "done" =>
                /\ pc'[c] = "done"
                /\ out'[c] = out[c]
                /\ trace'[c] = trace[c]
                /\ sock'[c] = NULL
                /\ addr_cache'[c] = NULL
                /\ link_cache'[c] = NULL
                /\ opened' = opened \/ \E d \in Gens \ {c} : pc[d] # pc'[d]
                /\ reqs'[c] # reqs[c] => ret'[c] = "stop"]_vars
    /\ [](\A c \in Gens : Extracts(c) # <<>> => Extracts(c)[1].x = 1)

\* a request made on a generator that had given its records and ended
C20_Witness ==
    \E c \in Gens :
        /\ pc[c] = "done"
        /\ idle[c] = 1
        /\ ret[c] = "stop"
        /\ Len(out[c]) = 2

(***************************************************************************)
(* C13.  Once the setup of a call has succeeded (the walk is about to      *)
(* start) and the consumer keeps asking, the generator ends, and when it   *)
(* has ended the link cache, the address cache and the socket have been    *)
(* released; it never produced more records than the cache has entries,    *)
(* and exactly that many when it ran to exhaustion.                        *)
(***************************************************************************)
Ended(c) ==
    /\ pc[c] = "done"
    /\ HoldsNothing(c)
    /\ ReleaseOps(c) = <<"link_free", "addr_free", "socket_put">>

C13_FiniteWalk ==
    /\ \A c \in OneCall : (pc[c] = "get_first") ~> Ended(c)
    /\ [](\A c \in OneCall :
            /\ Len(out[c]) <= Len(kernel)
            /\ Exhausted(c) /\ CountOk(c, "link_alloc") = 1 =>
                  Len(out[c]) = Len(kernel))

\* a walk of two entries run to its end, everything released
C13_Witness ==
    \E c \in OneCall :
        /\ Exhausted(c)
        /\ Ended(c)
        /\ Len(kernel) = 2
        /\ Len(out[c]) = 2

(***************************************************************************)
(* C16.  As stated: one extraction reads the fields in the order ifindex,  *)
(* family, prefixlen, scope, flags, local address, and the label (native   *)
(* label, then the link cache when that is empty) after all of them.       *)
(***************************************************************************)
IsRead(n) ==
    n \in {"rtnl_addr_get_ifindex", "rtnl_addr_get_label", "rtnl_link_i2name",
           "rtnl_addr_get_family", "rtnl_addr_get_prefixlen",
           "rtnl_addr_get_scope", "rtnl_addr_get_flags",
           "rtnl_addr_get_local"}

Reads == SelectSeq(calls, IsRead)

LabelReads(a) ==
    <<"rtnl_addr_get_label">>
    \o (IF Falsy(a.label) THEN <<"rtnl_link_i2name">> ELSE <<>>)

OtherReads ==
    <<"rtnl_addr_get_family", "rtnl_addr_get_prefixlen",
      "rtnl_addr_get_scope", "rtnl_addr_get_flags", "rtnl_addr_get_local">>

C16_LabelLast ==
    info # <<>> =>
        Reads = <<"rtnl_addr_get_ifindex">> \o OtherReads
                    \o LabelReads(probe[1])

(***************************************************************************)
(* C16, amended.  One extraction reads the ifindex first, resolves the     *)
(* label next (native label, then the link cache when that is empty), and  *)
(* reads family, prefixlen, scope, flags and local address after it, in    *)
(* that order.                                                             *)
(***************************************************************************)
C16_LabelSecond ==
    info # <<>> =>
        Reads = <<"rtnl_addr_get_ifindex">> \o LabelReads(probe[1])
                    \o OtherReads

\* an extraction that had to ask the link cache for the label
C16_Witness ==
    /\ info # <<>>
    /\ Falsy(probe[1].label)
    /\ \E i \in 1..Len(calls) : calls[i] = "rtnl_link_i2name"
    /\ info[1].label = "eth0"

(***************************************************************************)
(* C17.  The address of a record of an IPv6 address is the full text of    *)
(* the native address, prefix annotation included, whatever the address    *)
(* and the prefix length; the flags buffer has twice the capacity of the   *)
(* address buffer, 80 bytes.                                               *)
(***************************************************************************)
C17_AddressNeverTruncated ==
    /\ CHARBUFFSIZE * 2 = 80
    /\ (info # <<>> /\ probe[1].family = 10) =>
          info[1].address = probe[1].local

=============================================================================
